---- MODULE Spec2Model ----
(***************************************************************************)
(* Mind-map editor state core: the node mapping with its parent/child     *)
(* tree, the free-form connections and the undo/redo history, as kept by  *)
(* App (App.tsx) and driven by MindMapCanvas (MindMapCanvas.tsx).         *)
(*                                                                         *)
(* Objects are records; a field that a JavaScript object does not have is *)
(* a field outside the record's DOMAIN, so that `{...undefined, ...u}`    *)
(* is the record u and reading `x.children` of such an object throws.     *)
(* An exception thrown inside a setMindMap updater aborts the update and  *)
(* takes the React tree down (crashed).                                   *)
(***************************************************************************)
EXTENDS Integers, Sequences, FiniteSets, TLC

VARIABLES mindMap, history, historyIndex, canUndo, canRedo,
          now, mounted, crashed, lastOp, reader, canvas

vars == <<mindMap, history, historyIndex, canUndo, canRedo,
          now, mounted, crashed, lastOp, reader, canvas>>

\* ---------------------------------------------------------------- bounds
\* Largest clock reading (and so the number of node ids `node-<t>`).
MaxNow == 2
\* Longest history list the model lets the editor build.
MaxHistory == 3

\* ------------------------------------------------------------- constants
\* The id of the default root, 'root'.
Root == 0
\* JavaScript null and undefined, as values no id takes.
Null == 0 - 1
Undefined == 0 - 2

Origin == [x |-> 0, y |-> 0]
\* canvasWidth / 2 / scale - 100, canvasHeight / 2 / scale - 50 for a
\* 1000 x 600 canvas at scale 1.
Centre == [x |-> 400, y |-> 250]
\* Where the model drops a dragged node: Math.round can give any point, the
\* origin is the one the canvas reacts to.
DropPositions == {Origin}


\* ------------------------------------------------------- object helpers
Has(obj, f) == f \in DOMAIN obj
\* obj.f, undefined when the field is missing.
Get(obj, f) == IF f \in DOMAIN obj THEN obj[f] ELSE Undefined
\* {...obj, ...u}
Merge(obj, u) == u @@ obj
\* {...nodes, [k]: v}
Put(nodes, k, v) == (k :> v) @@ nodes
\* delete nodes[k]
Remove(nodes, k) == [i \in DOMAIN nodes \ {k} |-> nodes[i]]
\* a JavaScript truthiness test of a parentId
Truthy(p) == p # Null /\ p # Undefined
\* arr.filter(id => id !== x)
Without(arr, x) == SelectSeq(arr, LAMBDA i : i # x)
\* the node can be read as a full node: it exists and has children
Usable(nodes, id) == id \in DOMAIN nodes /\ Has(nodes[id], "children")

\* ------------------------------------------------------ initial mind maps
DefaultMap ==
  [nodes |-> (Root :> [id |-> Root, parentId |-> Null, children |-> <<>>,
                       position |-> Origin, isExpanded |-> TRUE]),
   rootId |-> Root]
\* A map saved by an earlier session (localStorage): root -> node-1 ->
\* node-2, root already centred, with one cross connection node-2 -> root.
StoredTree ==
  [nodes |-> (Root :> [id |-> Root, parentId |-> Null, children |-> <<1>>,
                       position |-> Centre, isExpanded |-> TRUE])
          @@ (1 :> [id |-> 1, parentId |-> Root, children |-> <<2>>,
                    position |-> [x |-> 600, y |-> 250],
                    isExpanded |-> TRUE])
          @@ (2 :> [id |-> 2, parentId |-> 1, children |-> <<>>,
                    position |-> [x |-> 800, y |-> 250],
                    isExpanded |-> TRUE]),
   rootId |-> Root,
   connections |-> <<[start |-> 2, end |-> Root]>>]

\* The FileReader of handleImportMap: idle, or reading a chosen file.
Idle == [pending |-> FALSE]

\* The connection state of MindMapCanvas.  connectionParams is null
\* (NoParams) or a pair; timers counts the pending 500 ms timeouts;
\* reselected records that a connection start was chosen while a timeout
\* was pending.
NoParams == [set |-> FALSE]
CanvasInit ==
  [isConnecting |-> FALSE, connectionStart |-> Null,
   connectionHover |-> Null, connectionModalOpen |-> FALSE,
   connectionParams |-> NoParams, timers |-> 0, reselected |-> FALSE]

\* The first clock reading of the session: later than every stored id.
FirstNow(map) == Cardinality(DOMAIN map.nodes)

\* ------------------------------------------------------------- addChild
AddChildThrows(prev, parentId) ==
  \/ parentId \notin DOMAIN prev.nodes
  \/ ~Has(prev.nodes[parentId], "position")
  \/ ~Has(prev.nodes[parentId], "children")

AddChildMap(prev, parentId, newId) ==
  LET parentNode == prev.nodes[parentId]
      childPosition == [x |-> parentNode.position.x + 200,
                        y |-> parentNode.position.y
                                + Len(parentNode.children) * 100]
      child == [id |-> newId, parentId |-> parentId, children |-> <<>>,
                position |-> childPosition, isExpanded |-> TRUE]
  IN [prev EXCEPT !.nodes =
        Put(Put(prev.nodes, newId, child), parentId,
            Merge(parentNode,
                  [children |-> Append(parentNode.children, newId)]))]

\* ----------------------------------------------------------- updateNode
ChangesParent(prev, nodeId, updates) ==
  /\ Has(updates, "parentId")
  /\ updates.parentId # Get(prev.nodes[nodeId], "parentId")

UpdateNodeThrows(prev, nodeId, updates) ==
  /\ Has(updates, "parentId")
  /\ \/ nodeId \notin DOMAIN prev.nodes
     \/ /\ ChangesParent(prev, nodeId, updates)
        /\ LET oldParentId == Get(prev.nodes[nodeId], "parentId")
               newParentId == updates.parentId
           IN \/ Truthy(oldParentId) /\ ~Usable(prev.nodes, oldParentId)
              \/ Truthy(newParentId) /\ ~Usable(prev.nodes, newParentId)

UpdateNodeMap(prev, nodeId, updates) ==
  IF Has(updates, "parentId") /\ ChangesParent(prev, nodeId, updates)
  THEN
    LET oldParentId == Get(prev.nodes[nodeId], "parentId")
        newParentId == updates.parentId
        n1 == IF Truthy(oldParentId)
              THEN Put(prev.nodes, oldParentId,
                       Merge(prev.nodes[oldParentId],
                             [children |->
                                Without(prev.nodes[oldParentId].children,
                                        nodeId)]))
              ELSE prev.nodes
        n2 == IF Truthy(newParentId)
              THEN Put(n1, newParentId,
                       Merge(n1[newParentId],
                             [children |->
                                Append(n1[newParentId].children, nodeId)]))
              ELSE n1
        n3 == Put(n2, nodeId, Merge(n2[nodeId], updates))
    IN [prev EXCEPT !.nodes = n3]
  ELSE
    [prev EXCEPT !.nodes =
       Put(prev.nodes, nodeId,
           IF nodeId \in DOMAIN prev.nodes
           THEN Merge(prev.nodes[nodeId], updates)
           ELSE updates)]

\* ----------------------------------------------------------- deleteNode
\* deleteNodeAndChildren(id): the recursive descent over newNodes.  `active`
\* is the set of ids whose call is still on the stack: meeting one again is
\* recursion without end (RangeError); meeting a key already deleted, or a
\* node without children, is a TypeError.
RECURSIVE DeleteNodeAndChildren(_, _, _)
RECURSIVE DeleteEach(_, _, _, _)
DeleteNodeAndChildren(newNodes, id, active) ==
  IF ~Usable(newNodes, id) \/ id \in active
  THEN [threw |-> TRUE, nodes |-> newNodes]
  ELSE LET r == DeleteEach(newNodes, newNodes[id].children, 1,
                           active \cup {id})
       IN IF r.threw THEN r
          ELSE [threw |-> FALSE, nodes |-> Remove(r.nodes, id)]
DeleteEach(newNodes, children, i, active) ==
  IF i > Len(children)
  THEN [threw |-> FALSE, nodes |-> newNodes]
  ELSE LET r == DeleteNodeAndChildren(newNodes, children[i], active)
       IN IF r.threw THEN r
          ELSE DeleteEach(r.nodes, children, i + 1, active)

\* node.children.forEach(childId => newNodes[childId] = {...newNodes[childId],
\*                                                        parentId: p})
RECURSIVE Reparent(_, _, _, _)
Reparent(newNodes, children, i, p) ==
  IF i > Len(children) THEN newNodes
  ELSE Reparent(Put(newNodes, children[i],
                    IF children[i] \in DOMAIN newNodes
                    THEN Merge(newNodes[children[i]], [parentId |-> p])
                    ELSE [parentId |-> p]),
                children, i + 1, p)

\* A handler without the root guard: no id is treated as the root.
IsRootUnguarded(prev, nodeId) == FALSE

\* "Prevent deleting the root node"
IsRoot(prev, nodeId) == Has(prev, "rootId") /\ nodeId = prev.rootId

\* The first half of the updater: the cascade or the promotion of children.
DeleteBody(prev, nodeId, deleteChildren) ==
  LET node == prev.nodes[nodeId]
      parentId == Get(node, "parentId")
  IN IF deleteChildren
     THEN DeleteNodeAndChildren(prev.nodes, nodeId, {})
     ELSE IF ~Truthy(parentId)
          THEN [threw |-> FALSE, nodes |-> Remove(prev.nodes, nodeId)]
          ELSE IF ~Has(node, "children")
               THEN [threw |-> TRUE, nodes |-> prev.nodes]
               ELSE IF Len(node.children) = 0
                    THEN [threw |-> FALSE,
                          nodes |-> Remove(prev.nodes, nodeId)]
                    ELSE IF ~Usable(prev.nodes, parentId)
                         THEN [threw |-> TRUE, nodes |-> prev.nodes]
                         ELSE
                           LET parentNode == prev.nodes[parentId]
                               n1 == Reparent(prev.nodes, node.children, 1,
                                              parentId)
                               n2 == Put(n1, parentId,
                                         Merge(parentNode,
                                               [children |->
                                                  Without(parentNode.children,
                                                          nodeId)
                                                  \o node.children]))
                           IN [threw |-> FALSE, nodes |-> Remove(n2, nodeId)]

\* The whole updater after the root guard: body, then the trailing removal
\* of nodeId from its parent's children.
DeleteResult(prev, nodeId, deleteChildren) ==
  IF nodeId \notin DOMAIN prev.nodes
  THEN [threw |-> TRUE, nodes |-> prev.nodes]
  ELSE
    LET parentId == Get(prev.nodes[nodeId], "parentId")
        b == DeleteBody(prev, nodeId, deleteChildren)
    IN IF b.threw THEN b
       ELSE IF ~Truthy(parentId) THEN b
            ELSE IF ~Usable(b.nodes, parentId)
                 THEN [threw |-> TRUE, nodes |-> prev.nodes]
                 ELSE [threw |-> FALSE,
                       nodes |-> Put(b.nodes, parentId,
                                     Merge(b.nodes[parentId],
                                           [children |->
                                              Without(b.nodes[parentId].children,
                                                      nodeId)]))]

\* -------------------------------------------------------------- history
\* prev.slice(0, k)
Slice(arr, k) == SubSeq(arr, 1, IF k < Len(arr) THEN k ELSE Len(arr))

\* A history that writes the new snapshot over the current entry.
AddToHistoryOverwrite(prev, closureIndex, newState) ==
  Slice(prev, closureIndex) \o <<newState>>

\* A history that only ever appends: the entries ahead of the index stay.
AddToHistoryKeepAhead(prev, closureIndex, newState) == prev \o <<newState>>

\* The setHistory updater queued by addToHistory(newState); closureIndex is
\* the historyIndex of the render that created the callback.
AddToHistory(prev, closureIndex, newState) ==
  Slice(prev, closureIndex + 1) \o <<newState>>

\* The state after a setMindMap updater returned newMap and called
\* addToHistory(newMap) from a handler created by the current render.
Commit(st, newMap) ==
  [mindMap |-> newMap,
   history |-> AddToHistory(st.history, st.historyIndex, newMap),
   historyIndex |-> st.historyIndex + 1]

Current == [mindMap |-> mindMap, history |-> history,
            historyIndex |-> historyIndex]

\* ------------------------------------------- canvas: centring the root
\* The condition of the effect "Center root node when creating a new mind
\* map": the root exists and sits at (0, 0).
RootAtOrigin(map) ==
  /\ Has(map, "rootId")
  /\ map.rootId \in DOMAIN map.nodes
  /\ Has(map.nodes[map.rootId], "position")
  /\ map.nodes[map.rootId].position = Origin

CentreUpdate == [position |-> Centre]

\* The effect depends on onUpdateNode, whose identity changes with
\* historyIndex: it runs again after every render that changed the index,
\* and then calls onUpdateNode(rootId, {position}).
Settle(pre, post) ==
  IF post.historyIndex # pre.historyIndex /\ RootAtOrigin(post.mindMap)
  THEN Commit(post, UpdateNodeMap(post.mindMap, post.mindMap.rootId,
                                  CentreUpdate))
  ELSE post

Centred(pre, post) ==
  post.historyIndex # pre.historyIndex /\ RootAtOrigin(post.mindMap)

\* ------------------------------------------------ the end of an action
\* The state the next event sees: the settled state plus the effect that
\* refreshes canUndo / canRedo.
\* An end of action without the effect that refreshes the two flags.
FinishKeepFlags(st) ==
  /\ mindMap' = st.mindMap
  /\ history' = st.history
  /\ historyIndex' = st.historyIndex
  /\ UNCHANGED <<canUndo, canRedo>>

Finish(st) ==
  /\ mindMap' = st.mindMap
  /\ history' = st.history
  /\ historyIndex' = st.historyIndex
  /\ canUndo' = (st.historyIndex > 0)
  /\ canRedo' = (st.historyIndex < Len(st.history) - 1)

\* An exception in an updater: nothing is committed, the tree unmounts.
Crash ==
  /\ crashed' = TRUE
  /\ UNCHANGED <<mindMap, history, historyIndex, canUndo, canRedo>>

Ready == mounted /\ ~crashed
\* The model stops committing when the history list would outgrow its bound.
Fits(st) == Len(st.history) <= MaxHistory

\* What the last event was: the handler, the id and argument it was called
\* with, how it ended ("ok", "rejected" or "threw"), whether the centring
\* effect ran after it, and how many snapshots its commit dropped from the
\* end of the history.
Op(op, id, arg, outcome, centred, cut) ==
  [op |-> op, id |-> id, arg |-> arg, outcome |-> outcome,
   centred |-> centred, cut |-> cut]

\* The snapshots beyond index i of the current history list.
Ahead(i) == Len(history) - (i + 1)

\* ---------------------------------------------------------------- actions
Init ==
  /\ mindMap \in {DefaultMap, StoredTree}
  /\ history = <<>>
  /\ historyIndex = 0 - 1
  /\ canUndo = FALSE
  /\ canRedo = FALSE
  /\ now = FirstNow(mindMap)
  /\ mounted = FALSE
  /\ crashed = FALSE
  /\ lastOp = Op("init", Null, Null, "ok", FALSE, 0)
  /\ reader = Idle
  /\ canvas = CanvasInit

\* The first commit: the canvas effect runs before App's effects, so the
\* centring update (with the callback of the first render, historyIndex
\* -1) is queued before setHistory([mindMap]) and setHistoryIndex(0).
Mount ==
  /\ ~mounted /\ ~crashed
  /\ LET centring == RootAtOrigin(mindMap)
         newMap == IF centring
                   THEN UpdateNodeMap(mindMap, mindMap.rootId, CentreUpdate)
                   ELSE mindMap
         h1 == IF centring
               THEN AddToHistory(history, historyIndex, newMap)
               ELSE history
         i1 == IF centring THEN historyIndex + 1 ELSE historyIndex
         h2 == IF Len(history) = 0 THEN <<mindMap>> ELSE h1
         i2 == IF Len(history) = 0 THEN 0 ELSE i1
     IN /\ Finish([mindMap |-> newMap, history |-> h2, historyIndex |-> i2])
        /\ lastOp' = Op("mount", Null, Null, "ok", centring, 0)
  /\ mounted' = TRUE
  /\ UNCHANGED <<now, crashed, reader, canvas>>

AddChild(parentId, t) ==
  /\ Ready
  /\ t <= MaxNow
  /\ now' = t
  /\ IF AddChildThrows(mindMap, parentId)
     THEN /\ Crash
          /\ lastOp' = Op("addChild", parentId, t, "threw", FALSE, 0)
     ELSE LET st == Commit(Current, AddChildMap(mindMap, parentId, t))
              fin == Settle(Current, st)
          IN /\ Fits(fin)
             /\ Finish(fin)
             /\ lastOp' = Op("addChild", parentId, t, "ok",
                             Centred(Current, st), Ahead(historyIndex))
             /\ UNCHANGED crashed
  /\ UNCHANGED <<mounted, reader, canvas>>

UpdateNode(nodeId, updates) ==
  /\ Ready
  /\ IF UpdateNodeThrows(mindMap, nodeId, updates)
     THEN /\ Crash
          /\ lastOp' = Op("updateNode", nodeId, updates, "threw", FALSE, 0)
     ELSE LET st == Commit(Current, UpdateNodeMap(mindMap, nodeId, updates))
              fin == Settle(Current, st)
          IN /\ Fits(fin)
             /\ Finish(fin)
             /\ lastOp' = Op("updateNode", nodeId, updates, "ok",
                             Centred(Current, st), Ahead(historyIndex))
             /\ UNCHANGED crashed
  /\ UNCHANGED <<now, mounted, reader, canvas>>

DeleteNode(nodeId, deleteChildren) ==
  /\ Ready
  /\ IF IsRoot(mindMap, nodeId)
     THEN /\ lastOp' = Op("deleteNode", nodeId, Null, "rejected", FALSE, 0)
          /\ UNCHANGED <<mindMap, history, historyIndex, canUndo, canRedo,
                         crashed>>
     ELSE LET r == DeleteResult(mindMap, nodeId, deleteChildren)
          IN IF r.threw
             THEN /\ Crash
                  /\ lastOp' = Op("deleteNode", nodeId, deleteChildren,
                                  "threw", FALSE, 0)
             ELSE LET st == Commit(Current, [mindMap EXCEPT !.nodes = r.nodes])
                      fin == Settle(Current, st)
                  IN /\ Fits(fin)
                     /\ Finish(fin)
                     /\ lastOp' = Op("deleteNode", nodeId, deleteChildren,
                                     "ok", Centred(Current, st),
                                     Ahead(historyIndex))
                     /\ UNCHANGED crashed
  /\ UNCHANGED <<now, mounted, reader, canvas>>

\* history[historyIndex - 1] of an index beyond the list is undefined: the
\* map becomes undefined and the canvas render throws on mindMap.rootId.
Undo ==
  /\ Ready
  /\ IF historyIndex > 0
     THEN IF historyIndex > Len(history)
          THEN /\ Crash
               /\ lastOp' = Op("undo", Null, Null, "threw", FALSE, 0)
          ELSE LET st == [mindMap |-> history[historyIndex],
                          history |-> history,
                          historyIndex |-> historyIndex - 1]
               IN /\ Finish(Settle(Current, st))
                  /\ lastOp' = Op("undo", Null, Null, "ok",
                                  Centred(Current, st),
                                  IF Centred(Current, st)
                                  THEN Ahead(historyIndex - 1) ELSE 0)
                  /\ UNCHANGED crashed
     ELSE /\ lastOp' = Op("undo", Null, Null, "rejected", FALSE, 0)
          /\ UNCHANGED <<mindMap, history, historyIndex, canUndo, canRedo,
                         crashed>>
  /\ UNCHANGED <<now, mounted, reader, canvas>>

\* A redo that moves the index but does not replace the map.
RedoKeepsMap ==
  /\ Ready
  /\ historyIndex < Len(history) - 1
  /\ Finish([mindMap |-> mindMap, history |-> history,
             historyIndex |-> historyIndex + 1])
  /\ lastOp' = Op("redo", Null, Null, "ok", FALSE, 0)
  /\ UNCHANGED <<now, mounted, crashed, reader, canvas>>

Redo ==
  /\ Ready
  /\ IF historyIndex < Len(history) - 1
     THEN LET st == [mindMap |-> history[historyIndex + 2],
                     history |-> history,
                     historyIndex |-> historyIndex + 1]
          IN /\ Finish(Settle(Current, st))
             /\ lastOp' = Op("redo", Null, Null, "ok", Centred(Current, st),
                             IF Centred(Current, st)
                             THEN Ahead(historyIndex + 1) ELSE 0)
     ELSE /\ lastOp' = Op("redo", Null, Null, "rejected", FALSE, 0)
          /\ UNCHANGED <<mindMap, history, historyIndex, canUndo, canRedo>>
  /\ UNCHANGED <<now, mounted, crashed, reader, canvas>>

\* ------------------------------------------------- new map and import
\* handleNewMap: the literal default map replaces the current one and is
\* committed; its root sits at (0, 0), so the centring effect follows.
NewMap ==
  /\ Ready
  /\ LET st == Commit(Current, DefaultMap)
         fin == Settle(Current, st)
     IN /\ Fits(fin)
        /\ Finish(fin)
        /\ lastOp' = Op("newMap", Null, Null, "ok", Centred(Current, st),
                        Ahead(historyIndex))
  /\ UNCHANGED <<now, mounted, crashed, reader, canvas>>

\* ------------------------------------------------------ files and JSON
\* A file is its text: text that is not JSON, or the text of a JSON
\* document. A file written by export also carries the map it was written
\* from, which no handler reads.
NotJsonFile == [valid |-> FALSE]
JsonFile(doc) == [valid |-> TRUE, doc |-> doc]

\* A serialisation that leaves out null values as well as undefined ones.
StringifyDropsNull(map) ==
  [map EXCEPT !.nodes =
     [k \in DOMAIN map.nodes |->
        IF Get(map.nodes[k], "parentId") = Null
        THEN [f \in DOMAIN map.nodes[k] \ {"parentId"} |-> map.nodes[k][f]]
        ELSE map.nodes[k]]]

\* JSON.stringify(mindMap, null, 2): a property whose value is undefined is
\* left out of the text. The only such property a handler writes is the
\* label of a connection saved with the label field left empty.
Stringify(map) ==
  IF Has(map, "connections")
  THEN [map EXCEPT !.connections =
          [i \in 1..Len(map.connections) |->
             LET c == map.connections[i]
             IN IF Get(c, "label") = Undefined
                THEN [f \in DOMAIN c \ {"label"} |-> c[f]]
                ELSE c]]
  ELSE map

\* handleExportMap: the downloaded file.
ExportFile(map) ==
  [valid |-> TRUE, doc |-> Stringify(map), exportOf |-> map]

\* A JSON document with nodes and without rootId.
NoRootDoc == [nodes |-> DefaultMap.nodes]

\* The files the model imports.
ImportFiles == {JsonFile(StoredTree), JsonFile(NoRootDoc), NotJsonFile}

\* handleImportMap up to reader.readAsText(file): the onload callback keeps
\* the addToHistory of the render in which the file was chosen.
ChooseFile(file) ==
  /\ Ready
  /\ ~reader.pending
  /\ reader' = [pending |-> TRUE, closureIndex |-> historyIndex,
                file |-> file]
  /\ lastOp' = Op("chooseFile", Null, Null, "ok", FALSE, 0)
  /\ UNCHANGED <<mindMap, history, historyIndex, canUndo, canRedo,
                 now, mounted, crashed, canvas>>

\* reader.onload: JSON.parse throws on text that is not JSON and the catch
\* block alerts; otherwise setMindMap(imported); addToHistory(imported)
\* with the callback captured by ChooseFile; the index updater counts from
\* the current index.
ReaderLoad ==
  /\ Ready
  /\ reader.pending
  /\ IF ~reader.file.valid
     THEN /\ UNCHANGED <<mindMap, history, historyIndex, canUndo, canRedo>>
          /\ lastOp' = Op("import", Null, Null, "alert", FALSE, 0)
     ELSE LET imported == reader.file.doc
              st == [mindMap |-> imported,
                     history |-> AddToHistory(history, reader.closureIndex,
                                              imported),
                     historyIndex |-> historyIndex + 1]
              fin == Settle(Current, st)
          IN /\ Fits(fin)
             /\ Finish(fin)
             /\ lastOp' = Op("import", Null, Null, "ok",
                             Centred(Current, st),
                             Len(history) - (reader.closureIndex + 1))
  /\ reader' = Idle
  /\ UNCHANGED <<now, mounted, crashed, canvas>>

\* Export of the current map, and the exported file chosen for import.
ExportThenChoose == ChooseFile(ExportFile(mindMap))

\* MindMapNode's expand/collapse button.
ToggleExpand(nodeId) ==
  /\ nodeId \in DOMAIN mindMap.nodes
  /\ Has(mindMap.nodes[nodeId], "isExpanded")
  /\ UpdateNode(nodeId, [isExpanded |-> ~mindMap.nodes[nodeId].isExpanded])

\* The ids the model calls an operation with: every key of the node mapping
\* and one id that is not a key (the lowest the clock could have issued).
Issued == 1..now
Targets ==
  DOMAIN mindMap.nodes \cup
    {i \in Issued : /\ i \notin DOMAIN mindMap.nodes
                    /\ \A j \in Issued : j < i => j \in DOMAIN mindMap.nodes}

\* The partial updates the model calls updateNode with: a new parentId, or
\* a new position (a drop).
UpdateSet ==
  {[parentId |-> p] : p \in Targets \cup {Null}}
    \cup {[position |-> q] : q \in DropPositions}

\* Date.now() at a click: the same millisecond as the last one, or a later.
Clock == {now, now + 1}

Next ==
  \/ Mount
  \/ \E parentId \in Targets, t \in Clock : AddChild(parentId, t)
  \/ \E nodeId \in Targets, updates \in UpdateSet : UpdateNode(nodeId, updates)
  \/ \E nodeId \in Targets, deleteChildren \in BOOLEAN :
       DeleteNode(nodeId, deleteChildren)
  \/ Undo
  \/ Redo

Spec == Init /\ [][Next]_vars

\* The editor with the toolbar's New and Import buttons.
NextFile ==
  \/ Next
  \/ NewMap
  \/ \E file \in ImportFiles : ChooseFile(file)
  \/ ReaderLoad

SpecFile == Init /\ [][NextFile]_vars

\* The editor with the nodes' expand/collapse button.
NextExpand ==
  \/ Next
  \/ \E nodeId \in Targets : ToggleExpand(nodeId)

SpecExpand == Init /\ [][NextExpand]_vars

TypeOK ==
  /\ historyIndex \in (0 - 1)..(MaxHistory + MaxHistory)
  /\ Len(history) <= MaxHistory

\* ------------------------------------------------------ tree vocabulary
ParentOf(m, n) == Get(m.nodes[n], "parentId")
ChildrenOf(m, n) ==
  IF Has(m.nodes[n], "children") THEN m.nodes[n].children ELSE <<>>
Count(arr, x) == Cardinality({i \in DOMAIN arr : arr[i] = x})
Elems(arr) == {arr[i] : i \in DOMAIN arr}
Keys(m) == DOMAIN m.nodes

\* The ids reachable from the ids of `frontier` by following children, in
\* at most k rounds.
RECURSIVE Reach(_, _, _)
Reach(m, frontier, k) ==
  IF k = 0 THEN frontier
  ELSE LET next == frontier \cup
                     UNION {Elems(ChildrenOf(m, n)) : n \in frontier \cap Keys(m)}
       IN IF next = frontier THEN frontier ELSE Reach(m, next, k - 1)
\* id and every transitive descendant of id
Subtree(m, id) == Reach(m, {id}, Cardinality(Keys(m)) + 1)
Descendants(m, id) ==
  Reach(m, Elems(ChildrenOf(m, id)), Cardinality(Keys(m)) + 1)

LinksConsistent(m) ==
  /\ \A n \in Keys(m) :
       Truthy(ParentOf(m, n)) =>
         /\ ParentOf(m, n) \in Keys(m)
         /\ Count(ChildrenOf(m, ParentOf(m, n)), n) = 1
  /\ \A p \in Keys(m) : \A c \in Elems(ChildrenOf(m, p)) :
       c \in Keys(m) /\ ParentOf(m, c) = p

SingleRoot(m) ==
  /\ m.rootId \in Keys(m)
  /\ {n \in Keys(m) : ~Truthy(ParentOf(m, n))} = {m.rootId}

NoDangling(m) ==
  \A n \in Keys(m) :
    /\ Truthy(ParentOf(m, n)) => ParentOf(m, n) \in Keys(m)
    /\ Elems(ChildrenOf(m, n)) \subseteq Keys(m)

\* ------------------------------------------- canvas: free connections
\* Text typed into the label field of the connection dialog: empty, or some
\* text.
EmptyText == 0
LabelTexts == {EmptyText, 1}

\* The pending 500 ms timeouts the model keeps at once.
MaxTimers == 1

\* The nodes renderNodes draws, the ones that can be clicked: reached from
\* the root through children, with every ancestor expanded.
Rendered(m) ==
  {n \in Keys(m) \cap Subtree(m, m.rootId) :
     \A a \in Keys(m) :
       n \in Descendants(m, a) => Get(m.nodes[a], "isExpanded") = TRUE}

\* A click handler that lets a node be connected to itself.
IsSelfIgnored(connectionStart, nodeId) == FALSE

\* "Don't connect node to itself"
IsSelf(connectionStart, nodeId) == connectionStart = nodeId

\* A duplicate check that looks for the pair in the clicked direction only.
ConnectionExistsForward(connections, a, b) ==
  \E i \in 1..Len(connections) :
    connections[i].start = a /\ connections[i].end = b

\* some(conn => start/end match the pair in either direction)
ConnectionExists(connections, a, b) ==
  \E i \in 1..Len(connections) :
    \/ connections[i].start = a /\ connections[i].end = b
    \/ connections[i].start = b /\ connections[i].end = a

\* The dialog and the page behind it: while the dialog is open the page
\* takes no clicks.
Unblocked == ~canvas.connectionModalOpen

ToggleConnectionMode ==
  /\ Ready
  /\ Unblocked
  /\ canvas' = [canvas EXCEPT !.isConnecting = ~canvas.isConnecting,
                              !.connectionStart = Null,
                              !.connectionHover = Null]
  /\ lastOp' = Op("toggle", Null, Null, "ok", FALSE, 0)
  /\ UNCHANGED <<mindMap, history, historyIndex, canUndo, canRedo,
                 now, mounted, crashed, reader>>

\* handleNodeClick in connection mode.  With connections undefined the
\* duplicate check throws inside the click handler: nothing is set.
NodeClick(nodeId) ==
  /\ Ready
  /\ Unblocked
  /\ canvas.isConnecting
  /\ nodeId \in Rendered(mindMap)
  /\ IF canvas.connectionStart # Null
     THEN IF IsSelf(canvas.connectionStart, nodeId)
          THEN /\ canvas' = [canvas EXCEPT !.connectionStart = Null]
               /\ lastOp' = Op("nodeClick", nodeId, Null, "deselect", FALSE, 0)
          ELSE IF ~Has(mindMap, "connections")
          THEN /\ canvas' = canvas
               /\ lastOp' = Op("nodeClick", nodeId, Null, "threw", FALSE, 0)
          ELSE IF ConnectionExists(mindMap.connections,
                                   canvas.connectionStart, nodeId)
          THEN /\ canvas.timers < MaxTimers
               /\ canvas' = [canvas EXCEPT !.connectionHover = nodeId,
                                           !.timers = canvas.timers + 1,
                                           !.reselected = FALSE]
               /\ lastOp' = Op("nodeClick", nodeId, Null, "duplicate",
                               FALSE, 0)
          ELSE /\ canvas' = [canvas EXCEPT
                               !.connectionParams =
                                  [set |-> TRUE,
                                   start |-> canvas.connectionStart,
                                   end |-> nodeId],
                               !.connectionModalOpen = TRUE]
               /\ lastOp' = Op("nodeClick", nodeId, Null, "modal", FALSE, 0)
     ELSE /\ canvas' = [canvas EXCEPT !.connectionStart = nodeId,
                                      !.reselected = (canvas.timers > 0)]
          /\ lastOp' = Op("nodeClick", nodeId, Null, "start", FALSE, 0)
  /\ UNCHANGED <<mindMap, history, historyIndex, canUndo, canRedo,
                 now, mounted, crashed, reader>>

\* The setTimeout callback of the duplicate branch.
TimerFires ==
  /\ Ready
  /\ canvas.timers > 0
  /\ canvas' = [canvas EXCEPT !.connectionHover = Null,
                              !.connectionStart = Null,
                              !.timers = canvas.timers - 1,
                              !.reselected = FALSE]
  /\ lastOp' = Op("timer", Null, Null, "ok", FALSE, 0)
  /\ UNCHANGED <<mindMap, history, historyIndex, canUndo, canRedo,
                 now, mounted, crashed, reader>>

\* The handler App passes as onUpdateConnections: the list becomes the
\* map's connections.
UpdateConnectionsMap(prev, connections) ==
  Merge(prev, [connections |-> connections])

\* handleAddConnection(label, color), called by the dialog's Add button.
AddConnection(label) ==
  /\ Ready
  /\ canvas.connectionModalOpen
  /\ canvas.connectionParams.set
  /\ LET newConnection ==
           [start |-> canvas.connectionParams.start,
            end |-> canvas.connectionParams.end,
            label |-> IF label = EmptyText THEN Undefined ELSE label,
            color |-> "#3949ab"]
         updatedConnections ==
           (IF Has(mindMap, "connections") THEN mindMap.connections
            ELSE <<>>) \o <<newConnection>>
         st == Commit(Current,
                      UpdateConnectionsMap(mindMap, updatedConnections))
         fin == Settle(Current, st)
     IN /\ Fits(fin)
        /\ Finish(fin)
        /\ lastOp' = Op("addConnection", canvas.connectionParams.start,
                        canvas.connectionParams.end, "ok",
                        Centred(Current, st), Ahead(historyIndex))
  /\ canvas' = [canvas EXCEPT !.connectionParams = NoParams,
                              !.connectionStart = Null,
                              !.connectionModalOpen = FALSE]
  /\ UNCHANGED <<now, mounted, crashed, reader>>

CancelConnection ==
  /\ Ready
  /\ canvas.connectionModalOpen
  /\ canvas' = [canvas EXCEPT !.connectionModalOpen = FALSE,
                              !.connectionParams = NoParams,
                              !.connectionStart = Null]
  /\ lastOp' = Op("cancel", Null, Null, "ok", FALSE, 0)
  /\ UNCHANGED <<mindMap, history, historyIndex, canUndo, canRedo,
                 now, mounted, crashed, reader>>

\* The editor with the canvas's connection mode.
NextConn ==
  \/ Mount
  \/ Unblocked /\ \E parentId \in Keys(mindMap) : AddChild(parentId, now + 1)
  \/ Unblocked /\ \E nodeId \in Keys(mindMap), deleteChildren \in BOOLEAN :
                    DeleteNode(nodeId, deleteChildren)
  \/ Unblocked /\ Undo
  \/ Unblocked /\ Redo
  \/ ToggleConnectionMode
  \/ \E nodeId \in Keys(mindMap) : NodeClick(nodeId)
  \/ TimerFires
  \/ \E label \in LabelTexts : AddConnection(label)
  \/ CancelConnection

SpecConn == Init /\ [][NextConn]_vars

\* The editor with connections, export and import of the exported file.
NextRound ==
  \/ Mount
  \/ Unblocked /\ \E parentId \in Keys(mindMap) : AddChild(parentId, now + 1)
  \/ ToggleConnectionMode
  \/ \E nodeId \in Keys(mindMap) : NodeClick(nodeId)
  \/ TimerFires
  \/ \E label \in LabelTexts : AddConnection(label)
  \/ CancelConnection
  \/ Unblocked /\ ExportThenChoose
  \/ ReaderLoad

SpecRound == Init /\ [][NextRound]_vars

\* ================================================================ claims
TreeOps == {"addChild", "updateNode", "deleteNode"}

\* C1: in every reachable state parent/child links are bidirectionally
\* consistent: a node with a parent is listed exactly once in that
\* parent's children, and every listed child names the lister as parent.
C1_LinksConsistent == LinksConsistent(mindMap)

\* C2: in every reachable state exactly one node has no parent, it is the
\* node named by rootId, and rootId is a key of the node mapping.
C2_SingleRoot == SingleRoot(mindMap)

\* C3: in every reachable state every id in a children list and every
\* non-null parentId is a key of the node mapping.
C3_NoDangling == NoDangling(mindMap)

\* C4: updateNode never introduces a cycle: in every reachable state no
\* node is its own ancestor.
C4_NoCycle == \A n \in Keys(mindMap) : n \notin Descendants(mindMap, n)

\* C5: deleteNode(rootId, cascade), for either value of cascade, is
\* rejected and leaves the map, and with it the history, as it was.
C5_RootDeleteRejected ==
  [][(lastOp'.op = "deleteNode" /\ lastOp'.id = mindMap.rootId)
       => /\ lastOp'.outcome = "rejected"
          /\ mindMap' = mindMap
          /\ history' = history
          /\ historyIndex' = historyIndex]_vars

\* C5 witness: a delete of the root was asked for on a map that has other
\* nodes, and the map still has its root.
C5_Witness ==
  /\ lastOp.op = "deleteNode"
  /\ lastOp.id = mindMap.rootId
  /\ lastOp.outcome = "rejected"
  /\ Cardinality(Keys(mindMap)) > 1
  /\ mindMap.rootId \in Keys(mindMap)

\* C6: deleteNode(id, true) on an existing non-root node leaves a node
\* mapping whose keys are the previous keys minus id and its descendants.
C6_CascadeRemovesSubtree ==
  [][(/\ lastOp'.op = "deleteNode"
      /\ lastOp'.id # mindMap.rootId
      /\ lastOp'.id \in Keys(mindMap)
      /\ lastOp'.arg = TRUE)
       => Keys(mindMap') = Keys(mindMap) \ Subtree(mindMap, lastOp'.id)]_vars

\* C8: deleteNode(id, false) on an existing non-root node removes only id,
\* gives every direct child of id the former parent of id as parentId, and
\* leaves the former parent's children as its other children followed by
\* the promoted ones, each exactly once.
C8_PromoteChildren ==
  [][(/\ lastOp'.op = "deleteNode"
      /\ lastOp'.id # mindMap.rootId
      /\ lastOp'.id \in Keys(mindMap)
      /\ lastOp'.arg = FALSE)
       => LET id == lastOp'.id
              p == ParentOf(mindMap, id)
              kids == ChildrenOf(mindMap, id)
          IN /\ Keys(mindMap') = Keys(mindMap) \ {id}
             /\ \A c \in Elems(kids) : ParentOf(mindMap', c) = p
             /\ p \in Keys(mindMap) =>
                  /\ p \in Keys(mindMap')
                  /\ ChildrenOf(mindMap', p)
                       = Without(ChildrenOf(mindMap, p), id) \o kids
                  /\ \A c \in Elems(ChildrenOf(mindMap', p)) :
                       Count(ChildrenOf(mindMap', p), c) = 1]_vars

C10_UndoStepsBack ==
  [][(lastOp'.op = "undo" /\ lastOp'.outcome = "ok")
       => /\ historyIndex' = historyIndex - 1
          /\ history' = history
          /\ mindMap' = history[historyIndex' + 1]
          /\ canRedo' = TRUE]_vars

\* C7: after a delete in either mode no connection of the resulting map
\* has a start or an end that the delete removed from the node mapping.
C7_ConnectionsPruned ==
  [][(/\ lastOp'.op = "deleteNode"
      /\ lastOp'.outcome = "ok"
      /\ Has(mindMap', "connections"))
       => \A i \in 1..Len(mindMap'.connections) :
            LET gone == Keys(mindMap) \ Keys(mindMap')
            IN /\ mindMap'.connections[i].start \notin gone
               /\ mindMap'.connections[i].end \notin gone]_vars

\* C11: undo is a no-op when the index is at or below 0 (history, index and
\* current map unchanged); otherwise it decrements the index by exactly one
\* and the current map becomes the snapshot stored at the new index.
C11_UndoContract ==
  [][lastOp'.op = "undo"
       => IF historyIndex <= 0
          THEN /\ lastOp'.outcome = "rejected"
               /\ history' = history
               /\ historyIndex' = historyIndex
               /\ mindMap' = mindMap
          ELSE /\ historyIndex' = historyIndex - 1
               /\ mindMap' = history[historyIndex]
               /\ mindMap' = history'[historyIndex' + 1]]_vars

\* C12: redo is a no-op when the index is at or beyond the last snapshot
\* (history, index and current map unchanged); otherwise it increments the
\* index by exactly one and the current map becomes the snapshot stored at
\* the new index.
C12_RedoContract ==
  [][lastOp'.op = "redo"
       => IF historyIndex >= Len(history) - 1
          THEN /\ lastOp'.outcome = "rejected"
               /\ history' = history
               /\ historyIndex' = historyIndex
               /\ mindMap' = mindMap
          ELSE /\ historyIndex' = historyIndex + 1
               /\ mindMap' = history[historyIndex + 2]
               /\ mindMap' = history'[historyIndex' + 1]]_vars

\* C12 witness: a redo moved the index forward to a snapshot that is not
\* the last one, and the map shown is that snapshot.
C12_Witness ==
  /\ lastOp.op = "redo"
  /\ lastOp.outcome = "ok"
  /\ historyIndex > 0
  /\ historyIndex < Len(history) - 1
  /\ mindMap = history[historyIndex + 1]

\* C15: undo and redo move the index only: neither appends to, truncates
\* nor otherwise changes the history list.
C15_UndoRedoKeepHistory ==
  [][lastOp'.op \in {"undo", "redo"} => history' = history]_vars

\* C13: in every reachable state, after mutations, new-map, import, undo
\* and redo, the history index lies within [-1, length - 1]: it never
\* points past the last snapshot.
C13_IndexInRange ==
  /\ historyIndex >= 0 - 1
  /\ historyIndex <= Len(history) - 1

\* C16: once an action has been processed, canUndo equals (index > 0) and
\* canRedo equals (index < length - 1).
C16_FlagsFollowIndex ==
  /\ canUndo = (historyIndex > 0)
  /\ canRedo = (historyIndex < Len(history) - 1)

\* C16 witness: after an undo in the middle of the history both buttons
\* are enabled.
C16_Witness ==
  /\ lastOp.op = "undo"
  /\ lastOp.outcome = "ok"
  /\ historyIndex > 0
  /\ historyIndex < Len(history) - 1
  /\ canUndo
  /\ canRedo

\* C14: every successful addChild, updateNode and non-root deleteNode
\* commits exactly once with the resulting map: the history is the kept
\* prefix plus exactly one new entry, which is last and equals the new
\* current map.
C14_OneCommitPerMutation ==
  [][(lastOp'.op \in TreeOps /\ lastOp'.outcome = "ok")
       => /\ Len(history') = Len(Slice(history, historyIndex + 1)) + 1
          /\ history'[Len(history')] = mindMap'
          /\ historyIndex' = historyIndex + 1]_vars

\* C17: addChild with a parentId that is not a key of the node mapping
\* aborts the operation: no node is created, map and history are left
\* unchanged and the editor goes on.
C17_AddChildAbsentParent ==
  [][(lastOp'.op = "addChild" /\ lastOp'.id \notin Keys(mindMap))
       => /\ mindMap' = mindMap
          /\ history' = history
          /\ historyIndex' = historyIndex
          /\ crashed' = crashed]_vars

\* C18: addChild on an existing parent creates the child under an id that
\* was not a key before the call: the mapping grows by exactly that one
\* key, no existing node other than the parent is replaced, and the
\* parent's children gains the id once, at its end.
C18_FreshChildId ==
  [][(/\ lastOp'.op = "addChild"
      /\ lastOp'.outcome = "ok")
       => LET p == lastOp'.id
              newId == lastOp'.arg
          IN /\ newId \notin Keys(mindMap)
             /\ Keys(mindMap') = Keys(mindMap) \cup {newId}
             /\ \A n \in Keys(mindMap) \ {p} :
                  mindMap'.nodes[n] = mindMap.nodes[n]
             /\ ChildrenOf(mindMap', p)
                  = Append(ChildrenOf(mindMap, p), newId)
             /\ Count(ChildrenOf(mindMap', p), newId) = 1]_vars

\* C19: addChild on an existing parent leaves the parent's isExpanded true
\* in the resulting map, whatever its value before.
C19_AddChildExpandsParent ==
  [][(/\ lastOp'.op = "addChild"
      /\ lastOp'.outcome = "ok")
       => Get(mindMap'.nodes[lastOp'.id], "isExpanded") = TRUE]_vars

\* C20: updateNode with a nodeId that is not a key of the node mapping
\* creates no entry for nodeId and leaves the map and the history
\* unchanged.
C20_UpdateAbsentNode ==
  [][(lastOp'.op = "updateNode" /\ lastOp'.id \notin Keys(mindMap))
       => /\ lastOp'.id \notin Keys(mindMap')
          /\ mindMap' = mindMap
          /\ history' = history
          /\ historyIndex' = historyIndex]_vars

\* C21: updateNode that changes the parentId of an existing node from an
\* existing old parent to a different existing new parent removes the id
\* from old.children, appends it to the end of new.children, sets the
\* node's parentId and leaves every other children list unchanged; with
\* old = new no children list changes.
C21_ReparentMovesChild ==
  [][(/\ lastOp'.op = "updateNode"
      /\ Has(lastOp'.arg, "parentId")
      /\ lastOp'.id \in Keys(mindMap)
      /\ ParentOf(mindMap, lastOp'.id) \in Keys(mindMap)
      /\ lastOp'.arg.parentId \in Keys(mindMap))
       => LET id == lastOp'.id
              old == ParentOf(mindMap, id)
              new == lastOp'.arg.parentId
          IN /\ lastOp'.outcome = "ok"
             /\ Keys(mindMap') = Keys(mindMap)
             /\ ParentOf(mindMap', id) = new
             /\ IF old = new
                THEN \A n \in Keys(mindMap) :
                       ChildrenOf(mindMap', n) = ChildrenOf(mindMap, n)
                ELSE /\ ChildrenOf(mindMap', old)
                          = Without(ChildrenOf(mindMap, old), id)
                     /\ ChildrenOf(mindMap', new)
                          = Append(ChildrenOf(mindMap, new), id)
                     /\ \A n \in Keys(mindMap) \ {old, new} :
                          ChildrenOf(mindMap', n) = ChildrenOf(mindMap, n)]_vars

\* C27: no addChild, updateNode, deleteNode, undo or redo changes the
\* content of a stored snapshot: a position of the history whose entry
\* changes or disappears in a step is one of the entries that the step's
\* commit truncated from the end of the list.
C27_SnapshotsStable ==
  [][\A i \in 1..Len(history) :
       (i > Len(history') \/ history'[i] # history[i])
         => /\ lastOp'.cut > 0
            /\ i > Len(history) - lastOp'.cut]_vars

\* C27 witness: the index is below the end of the history after an undo,
\* so snapshots exist both at or below and above the index.
C27_Witness ==
  /\ lastOp.op = "undo"
  /\ lastOp.outcome = "ok"
  /\ ~lastOp.centred
  /\ historyIndex >= 1
  /\ historyIndex < Len(history) - 1

\* C28: once an action has been processed and the history is non-empty,
\* the current map equals the snapshot at the history index.
C28_MapIsCurrentSnapshot ==
  (mounted /\ Len(history) > 0)
    => /\ historyIndex + 1 \in 1..Len(history)
       /\ mindMap = history[historyIndex + 1]

\* C29: deleteNode(id, true) on an existing non-root node of a map whose
\* nodes all carry a children list finishes: the descent neither recurses
\* without end nor meets an id that is no longer in the mapping.
C29_CascadeTerminates ==
  [][(/\ lastOp'.op = "deleteNode"
      /\ lastOp'.id # mindMap.rootId
      /\ lastOp'.id \in Keys(mindMap)
      /\ lastOp'.arg = TRUE
      /\ \A n \in Keys(mindMap) : Has(mindMap.nodes[n], "children"))
       => lastOp'.outcome = "ok"]_vars

\* The connections of the current map (none when the field is missing).
Connections ==
  IF Has(mindMap, "connections") THEN mindMap.connections ELSE <<>>

C23_NoSelfConnection ==
  \A i \in 1..Len(Connections) : Connections[i].start # Connections[i].end

\* C23 witness: in a map that already holds a connection made on the
\* canvas, the chosen start node was clicked again and was deselected.
C23_Witness ==
  /\ lastOp.op = "nodeClick"
  /\ lastOp.outcome = "deselect"
  /\ canvas.connectionStart = Null
  /\ Len(Connections) >= 2

\* C24: no two connections of the map join the same unordered pair of
\* nodes.
C24_NoDuplicatePair ==
  \A i, j \in 1..Len(Connections) :
    i # j => {Connections[i].start, Connections[i].end}
               # {Connections[j].start, Connections[j].end}

\* C24 witness: a click that would have joined an already connected pair
\* in the reverse direction was blocked, in a map that holds a connection
\* made on the canvas.
C24_Witness ==
  /\ lastOp.op = "nodeClick"
  /\ lastOp.outcome = "duplicate"
  /\ Len(Connections) >= 2
  /\ \E i \in 1..Len(Connections) :
       /\ Connections[i].start = lastOp.id
       /\ Connections[i].end = canvas.connectionStart

\* C30: the delayed reset clears only the selection that scheduled it: when
\* a connection start was chosen after the timeout was scheduled, the
\* timeout leaves connectionStart and connectionHover as they are.
C30_TimerKeepsNewSelection ==
  [][(lastOp'.op = "timer" /\ canvas.reselected)
       => /\ canvas'.connectionStart = canvas.connectionStart
          /\ canvas'.connectionHover = canvas.connectionHover]_vars

\* C25: importing a file that is not valid JSON, or whose JSON lacks the
\* key nodes or the key rootId, ends in the alert and leaves the current
\* map and the history as they were.
C25_ImportRejectsBadFile ==
  [][(/\ lastOp'.op = "import"
      /\ \/ ~reader.file.valid
         \/ ~Has(reader.file.doc, "nodes")
         \/ ~Has(reader.file.doc, "rootId"))
       => /\ lastOp'.outcome = "alert"
          /\ mindMap' = mindMap
          /\ history' = history
          /\ historyIndex' = historyIndex]_vars

\* Two connections with the same endpoints, the same label (undefined when
\* there is none) and the same colour.
SameConnection(c, d) ==
  /\ c.start = d.start
  /\ c.end = d.end
  /\ Get(c, "label") = Get(d, "label")
  /\ Has(c, "color") = Has(d, "color")
  /\ Has(c, "color") => c.color = d.color

\* Structural equality of two maps: the same rootId, the same nodes with
\* the same fields, the same connections in the same order.
SameMap(a, b) ==
  /\ Has(a, "rootId") = Has(b, "rootId")
  /\ Has(a, "rootId") => a.rootId = b.rootId
  /\ a.nodes = b.nodes
  /\ Has(a, "connections") = Has(b, "connections")
  /\ Has(a, "connections") =>
       /\ Len(a.connections) = Len(b.connections)
       /\ \A i \in 1..Len(a.connections) :
            SameConnection(a.connections[i], b.connections[i])

====
